---- MODULE Spec2Model ----
(***************************************************************************)
(* Model of fuzzy_search_lib (src/src/lib.rs): load_corpus,                *)
(* find_closest_str with its distance closure, and FuzzySearcher.          *)
(*                                                                         *)
(* A Rust String is modelled as the sequence of its Unicode scalar values  *)
(* (what chars() yields); str::len() is the length of its UTF-8 encoding.  *)
(* A file is a sequence of bytes.  An f64 quotient n / d of two small      *)
(* naturals is modelled exactly as the pair [num |-> n, den |-> d]: for    *)
(* the operand sizes reached here (far below 2^26) the IEEE comparison of  *)
(* two such quotients agrees with the comparison of the exact rationals,   *)
(* and den = 0 gives NaN (num = 0) or +infinity (num > 0).                 *)
(***************************************************************************)
EXTENDS Naturals, Integers, Sequences, FiniteSets, TLC

VARIABLES fs, phase, path_arg, err, loaded, corpus,
          query, status, closest_idx, result

vars == <<fs, phase, path_arg, err, loaded, corpus,
          query, status, closest_idx, result>>

----------------------------------------------------------------------------
(* Bounds *)

MaxFileLen == 4

MaxQueryLen == 2

(* Bytes a corpus file is built from: '\n', 'a' and the two bytes of       *)
(* U+00E9 (0xC3 0xA9), so that files with multi-byte characters and files  *)
(* that are not valid UTF-8 both occur.                                    *)
FileBytes == {10, 97, 195, 169}

(* Characters a query is built from: 'a', 'b', U+00E9. *)
QueryChars == {97, 98, 233}

NEWLINE == 10

CorpusPath == "corpus/words.txt"

(* A path other than corpus_path, at which no file exists. *)
OtherPath == "other.txt"

Paths == {CorpusPath, OtherPath}

SeqsUpTo(S, n) == UNION {[1..k -> S] : k \in 0..n}

Missing == [exists |-> FALSE, bytes |-> <<>>]

File(b) == [exists |-> TRUE, bytes |-> b]

----------------------------------------------------------------------------
(* UTF-8 *)

Utf8Len(c) == IF c < 128 THEN 1 ELSE IF c < 2048 THEN 2 ELSE IF c < 65536 THEN 3 ELSE 4

RECURSIVE StrLen(_)
StrLen(s) == IF s = <<>> THEN 0 ELSE Utf8Len(Head(s)) + StrLen(Tail(s))

IsCont(b) == b >= 128 /\ b < 192

(* read_to_string: the bytes decoded as UTF-8, or a failure.  One- and     *)
(* two-byte sequences are decoded; every other byte pattern that FileBytes *)
(* can produce is invalid UTF-8.                                           *)
RECURSIVE Utf8Decode(_)
Utf8Decode(b) ==
    IF b = <<>> THEN [ok |-> TRUE, text |-> <<>>]
    ELSE IF Head(b) < 128
         THEN LET r == Utf8Decode(Tail(b))
              IN  [ok |-> r.ok, text |-> <<Head(b)>> \o r.text]
    ELSE IF Head(b) >= 194 /\ Head(b) < 224 /\ Len(b) >= 2 /\ IsCont(b[2])
         THEN LET r == Utf8Decode(Tail(Tail(b)))
              IN  [ok |-> r.ok,
                   text |-> <<(Head(b) - 192) * 64 + (b[2] - 128)>> \o r.text]
    ELSE [ok |-> FALSE, text |-> <<>>]

----------------------------------------------------------------------------
(* load_corpus *)

FirstNewline(s) ==
    IF \E i \in 1..Len(s) : s[i] = NEWLINE
    THEN CHOOSE i \in 1..Len(s) : s[i] = NEWLINE /\ \A j \in 1..(i - 1) : s[j] # NEWLINE
    ELSE 0

(* Variant of Split that behaves like str::lines(): no entry for the empty *)
(* remainder after the last newline.                                       *)
RECURSIVE SplitLines(_)
SplitLines(s) ==
    IF s = <<>> THEN <<>>
    ELSE LET i == FirstNewline(s)
         IN  IF i = 0 THEN <<s>>
             ELSE <<SubSeq(s, 1, i - 1)>> \o SplitLines(SubSeq(s, i + 1, Len(s)))

(* corpus.split("\n").map(|s| s.to_string()).collect() *)
RECURSIVE Split(_)
Split(s) ==
    LET i == FirstNewline(s)
    IN  IF i = 0 THEN <<s>>
        ELSE <<SubSeq(s, 1, i - 1)>> \o Split(SubSeq(s, i + 1, Len(s)))

(* load_corpus applied to the file found at the path it is given. *)
load_corpus(f) ==
    IF ~f.exists
    THEN [ok |-> FALSE, err |-> "UnableToOpenCorpusFile", lines |-> <<>>]
    ELSE LET d == Utf8Decode(f.bytes)
         IN  IF ~d.ok
             THEN [ok |-> FALSE, err |-> "UnableToReadCorpusFileToString", lines |-> <<>>]
             ELSE [ok |-> TRUE, err |-> "none", lines |-> Split(d.text)]

----------------------------------------------------------------------------
(* f64 values *)

F64(n) == [num |-> n, den |-> 1]

F64Div(n, d) == [num |-> n, den |-> d]

IsNaN(x) == x.den = 0 /\ x.num = 0

IsInf(x) == x.den = 0 /\ x.num > 0

(* Non-strict comparison, the variant of F64Lt a `<=` would give. *)
F64Le(x, y) ==
    IF IsNaN(x) \/ IsNaN(y) THEN FALSE
    ELSE IF IsInf(y) THEN TRUE
    ELSE IF IsInf(x) THEN FALSE
    ELSE x.num * y.den <= y.num * x.den

(* x < y on f64 *)
F64Lt(x, y) ==
    IF IsNaN(x) \/ IsNaN(y) THEN FALSE
    ELSE IF IsInf(x) THEN FALSE
    ELSE IF IsInf(y) THEN TRUE
    ELSE x.num * y.den < y.num * x.den

(* x == y on f64 *)
F64Eq(x, y) ==
    IF IsNaN(x) \/ IsNaN(y) THEN FALSE
    ELSE IF IsInf(x) \/ IsInf(y) THEN IsInf(x) /\ IsInf(y)
    ELSE x.num * y.den = y.num * x.den

----------------------------------------------------------------------------
(* find_closest_str *)

AbsDiff(m, n) == IF m >= n THEN m - n ELSE n - m

Min(m, n) == IF m <= n THEN m ELSE n

(* The integer the distance closure accumulates: a_len.abs_diff(b_len)     *)
(* over the byte lengths, plus one for every unequal pair of               *)
(* a.chars().zip(b.chars()).                                               *)
raw_distance(a, b) ==
    AbsDiff(StrLen(a), StrLen(b))
      + Cardinality({i \in 1..Min(Len(a), Len(b)) : a[i] # b[i]})

(* Variant of distance that forgets the final division by a_len. *)
distance_unnormalized(a, b) == F64(raw_distance(a, b))

(* Variant of distance that forgets the length difference. *)
distance_no_len(a, b) ==
    F64Div(Cardinality({i \in 1..Min(Len(a), Len(b)) : a[i] # b[i]}), StrLen(a))

(* The distance closure: distance as f64 / a_len as f64. *)
distance(a, b) == F64Div(raw_distance(a, b), StrLen(a))

(* The loop body for the entry at (1-based) position i; st holds           *)
(* closest_str (as its position) and closest_distance.                     *)
ScanStep(arg, reference_strs, i, st) ==
    LET d == distance(arg, reference_strs[i])
    IN  IF F64Lt(d, st.dist) THEN [idx |-> i, dist |-> d] ELSE st

RECURSIVE ScanFrom(_, _, _, _)
ScanFrom(arg, reference_strs, i, st) ==
    IF i > Len(reference_strs) THEN st
    ELSE ScanFrom(arg, reference_strs, i + 1, ScanStep(arg, reference_strs, i, st))

(* Variant of find_closest_str that hands back the argument itself when    *)
(* no entry got below the initial closest_distance.                        *)
find_closest_or_arg(arg, reference_strs) ==
    IF reference_strs = <<>>
    THEN [panic |-> TRUE, idx |-> 0, str |-> <<>>]
    ELSE LET st == ScanFrom(arg, reference_strs, 1,
                            [idx |-> 1, dist |-> F64(StrLen(arg))])
         IN  IF F64Eq(st.dist, F64(StrLen(arg)))
             THEN [panic |-> FALSE, idx |-> st.idx, str |-> arg]
             ELSE [panic |-> FALSE, idx |-> st.idx, str |-> reference_strs[st.idx]]

(* find_closest_str: &reference_strs[0] panics on an empty slice;          *)
(* otherwise the scan runs and closest_str.clone() is returned.            *)
find_closest_str(arg, reference_strs) ==
    IF reference_strs = <<>>
    THEN [panic |-> TRUE, idx |-> 0, str |-> <<>>]
    ELSE LET st == ScanFrom(arg, reference_strs, 1,
                            [idx |-> 1, dist |-> F64(StrLen(arg))])
         IN  [panic |-> FALSE, idx |-> st.idx, str |-> reference_strs[st.idx]]

----------------------------------------------------------------------------
(* FuzzySearcher *)

FileContents == {Missing} \cup {File(b) : b \in SeqsUpTo(FileBytes, MaxFileLen)}

Queries == SeqsUpTo(QueryChars, MaxQueryLen)

Init ==
    /\ fs \in {f \in [Paths -> FileContents] : f[OtherPath] = Missing}
    /\ phase = "start"
    /\ path_arg = ""
    /\ err = "none"
    /\ loaded = <<>>
    /\ corpus = <<>>
    /\ query = <<>>
    /\ status = "none"
    /\ closest_idx = 0
    /\ result = <<>>

(* FuzzySearcher::new(path): the argument is not used; the corpus is       *)
(* loaded from the fixed corpus_path.                                      *)
New(path) ==
    /\ phase = "start"
    /\ path_arg' = path
    /\ LET r == load_corpus(fs[CorpusPath])
       IN  /\ err' = r.err
           /\ loaded' = r.lines
           /\ phase' = IF r.ok THEN "constructed" ELSE "failed"
           /\ corpus' = IF r.ok THEN r.lines ELSE corpus
    /\ UNCHANGED <<fs, query, status, closest_idx, result>>

(* Variant of Search that moves the match out of the stored corpus         *)
(* instead of cloning it.                                                  *)
SearchTake(arg) ==
    /\ phase = "constructed"
    /\ LET r == find_closest_str(arg, corpus)
       IN  /\ status' = IF r.panic THEN "panic" ELSE "ok"
           /\ closest_idx' = r.idx
           /\ result' = r.str
           /\ corpus' = IF r.panic THEN corpus
                        ELSE [corpus EXCEPT ![r.idx] = <<>>]
    /\ query' = arg
    /\ UNCHANGED <<fs, phase, path_arg, err, loaded>>

(* FuzzySearcher::search(&self, arg) *)
Search(arg) ==
    /\ phase = "constructed"
    /\ LET r == find_closest_str(arg, corpus)
       IN  /\ status' = IF r.panic THEN "panic" ELSE "ok"
           /\ closest_idx' = r.idx
           /\ result' = r.str
    /\ query' = arg
    /\ UNCHANGED <<fs, phase, path_arg, err, loaded, corpus>>

Next ==
    \/ \E path \in Paths : New(path)
    \/ \E arg \in Queries : Search(arg)

Spec == Init /\ [][Next]_vars

----------------------------------------------------------------------------
(* Properties *)

Searched == status # "none" /\ query # <<>> /\ corpus # <<>>

Indices == 1..Len(corpus)

(* C1: the entry search returns has minimal distance to the query: no      *)
(* corpus entry is strictly closer to the query than the returned entry.   *)
C1_ReturnedEntryIsMinimal ==
    Searched =>
        /\ status = "ok"
        /\ \A i \in Indices :
              ~F64Lt(distance(query, corpus[i]), distance(query, result))

(* C2: a non-empty query that is itself an element of the corpus is        *)
(* returned by search, wherever it stands and whatever the other entries.  *)
C2_ExactMatchReturned ==
    (Searched /\ \E i \in Indices : corpus[i] = query) =>
        (status = "ok" /\ result = query)

C2_Witness ==
    /\ Searched /\ status = "ok"
    /\ Len(corpus) >= 2
    /\ corpus[1] # query
    /\ \E i \in Indices : corpus[i] = query
    /\ result = query

(* C3: for a non-empty corpus and a non-empty query search returns a       *)
(* value, and the value is equal to corpus[i] for some index i.            *)
C3_ResultIsCorpusElement ==
    Searched => (status = "ok" /\ \E i \in Indices : result = corpus[i])

C3_Witness ==
    /\ Searched /\ status = "ok"
    /\ Len(corpus) >= 2
    /\ result = corpus[2]
    /\ result # corpus[1]
    /\ result # query

(* C4: ties are broken by first occurrence: the returned entry's index is  *)
(* the lowest index among the entries whose distance to the query equals   *)
(* the distance of the returned entry.                                     *)
C4_FirstOccurrenceWins ==
    Searched =>
        /\ closest_idx \in Indices
        /\ result = corpus[closest_idx]
        /\ \A j \in Indices :
              F64Eq(distance(query, corpus[j]), distance(query, corpus[closest_idx]))
                 => closest_idx <= j

C4_Witness ==
    /\ Searched /\ status = "ok"
    /\ closest_idx \in Indices
    /\ \E j \in Indices :
          /\ j > closest_idx
          /\ F64Eq(distance(query, corpus[j]), distance(query, corpus[closest_idx]))
    /\ \E j \in Indices :
          F64Lt(distance(query, corpus[closest_idx]), distance(query, corpus[j]))

(* C5: new called with a path at which no file exists returns              *)
(* UnableToOpenCorpusFile and never a searcher.                            *)
C5_MissingFileGivesOpenError ==
    (phase # "start" /\ ~fs[path_arg].exists) =>
        (phase = "failed" /\ err = "UnableToOpenCorpusFile")

(* C6: load_corpus returns the newline-free segments of the content in     *)
(* order: as many entries as newlines plus one, no newline inside an       *)
(* entry, the entries joined by newlines give back the content, and a      *)
(* content ending in a newline yields a trailing empty entry.              *)
C6_LoaderSplit ==
    phase = "constructed" =>
        LET text == Utf8Decode(fs[CorpusPath].bytes).text
            RECURSIVE Join(_)
            Join(ss) == IF Len(ss) = 1 THEN ss[1]
                        ELSE ss[1] \o <<NEWLINE>> \o Join(Tail(ss))
        IN  /\ Len(loaded) = Cardinality({i \in 1..Len(text) : text[i] = NEWLINE}) + 1
            /\ \A i \in 1..Len(loaded) :
                  \A j \in 1..Len(loaded[i]) : loaded[i][j] # NEWLINE
            /\ Join(loaded) = text
            /\ (text # <<>> /\ text[Len(text)] = NEWLINE)
                  => loaded[Len(loaded)] = <<>>

C6_Witness ==
    /\ phase = "constructed"
    /\ Len(loaded) >= 3
    /\ loaded[1] # <<>>
    /\ loaded[Len(loaded)] = <<>>
    /\ LET text == Utf8Decode(fs[CorpusPath].bytes).text
       IN  text # <<>> /\ text[Len(text)] = NEWLINE

(* C7: after a successful new, whatever searches have been made, the       *)
(* searcher's corpus is the sequence that was loaded at construction.      *)
C7_CorpusNeverMutated ==
    phase = "constructed" => corpus = loaded

C7_Witness ==
    /\ phase = "constructed"
    /\ Searched /\ status = "ok"
    /\ Len(corpus) >= 2
    /\ result # <<>>
    /\ corpus = loaded

(* C8: the distance is a normalized value between 0 and 1: for a non-empty *)
(* query the value of the distance closure is at least 0 and at most 1.    *)
C8_DistanceWithinUnitInterval ==
    Searched =>
        \A i \in Indices :
            /\ F64Le(F64(0), distance(query, corpus[i]))
            /\ F64Le(distance(query, corpus[i]), F64(1))

(* The scan as the specification words it, over exact integers: best      *)
(* starts at the first entry and best_distance at the query length; every  *)
(* entry, the first included, is visited in order and taken when its       *)
(* measure is strictly below best_distance.  The measure of an entry is    *)
(* its raw distance (byte-length difference plus unequal aligned           *)
(* characters) divided by scale; num / den is best_distance.               *)
RECURSIVE ReferenceScan(_, _, _, _)
ReferenceScan(q, c, scale, k) ==
    IF k = 0 THEN [best |-> 1, num |-> StrLen(q), den |-> 1]
    ELSE LET prev == ReferenceScan(q, c, scale, k - 1)
             lendiff == IF StrLen(q) >= StrLen(c[k]) THEN StrLen(q) - StrLen(c[k])
                        ELSE StrLen(c[k]) - StrLen(q)
             aligned == {i \in 1..Len(q) : i <= Len(c[k])}
             raw == lendiff + Cardinality({i \in aligned : q[i] # c[k][i]})
         IN  IF raw * prev.den < prev.num * scale
             THEN [best |-> k, num |-> raw, den |-> scale]
             ELSE prev

(* C9: search returns the entry chosen by the reference scan that compares *)
(* each entry's unnormalized raw distance with best_distance.              *)
C9_SelectsByRawDistance ==
    Searched =>
        /\ status = "ok"
        /\ result = corpus[ReferenceScan(query, corpus, 1, Len(corpus)).best]

(* C9 as amended: search returns the entry chosen by the reference scan    *)
(* that compares each entry's normalized distance, raw distance divided by *)
(* the query's length, with best_distance.                                 *)
C9_SelectsByNormalizedDistance ==
    Searched =>
        /\ status = "ok"
        /\ result = corpus[ReferenceScan(query, corpus, StrLen(query), Len(corpus)).best]

C9_Witness ==
    /\ Searched /\ status = "ok"
    /\ result = corpus[ReferenceScan(query, corpus, StrLen(query), Len(corpus)).best]
    /\ result # corpus[ReferenceScan(query, corpus, 1, Len(corpus)).best]

(* to_string()/as_bytes(): the UTF-8 encoding of a string of one- and      *)
(* two-byte characters.                                                    *)
RECURSIVE Utf8Encode(_)
Utf8Encode(s) ==
    IF s = <<>> THEN <<>>
    ELSE (IF Head(s) < 128 THEN <<Head(s)>>
          ELSE <<192 + (Head(s) \div 64), 128 + (Head(s) % 64)>>)
         \o Utf8Encode(Tail(s))

(* C10: the distance closure returns raw_distance / len(a) with            *)
(* raw_distance = abs(len(a) - len(b)) + the number of positions           *)
(* i < min(len(a), len(b)) with a[i] # b[i], len and i being counted in    *)
(* one unit of the strings: characters, or bytes.                          *)
C10_DistanceInOneUnit ==
    Searched =>
        \A k \in Indices :
            LET Metric(a, b) ==
                    F64Div(AbsDiff(Len(a), Len(b))
                             + Cardinality({i \in 1..Min(Len(a), Len(b)) : a[i] # b[i]}),
                           Len(a))
            IN  \/ F64Eq(distance(query, corpus[k]), Metric(query, corpus[k]))
                \/ F64Eq(distance(query, corpus[k]),
                         Metric(Utf8Encode(query), Utf8Encode(corpus[k])))

====
